---------------------------- MODULE Spec2Model ----------------------------
(***************************************************************************)
(* Model of src/db/date.ts: toDate (string -> Date) and toString           *)
(* (Date -> string), the conversions between Postgres date/time strings    *)
(* and JavaScript Dates.                                                   *)
(*                                                                         *)
(* A JavaScript time value (milliseconds since the epoch) does not fit     *)
(* the model checker's integers, so a time value is the pair               *)
(* <day, ms> = <floor(t / msPerDay), t mod msPerDay>.  Strings are         *)
(* sequences of one-character strings.  The ECMAScript Date primitives     *)
(* the code calls (the Date constructors, the accessors, toISOString)      *)
(* follow ECMA-262; the parsing of strings outside the ECMA-262 date-time  *)
(* format, which the standard leaves to the implementation, follows V8     *)
(* (Node.js): its ES5 parser and its legacy fallback.                      *)
(***************************************************************************)
EXTENDS Integers, Sequences, FiniteSets

VARIABLES
    zone,     \* the host's local time zone
    pc,       \* which call was made last
    date,     \* toString's argument (a Date or null)
    fmt,      \* toString's stringTypeTz
    enc,      \* toString(date, fmt)
    dec,      \* toDate(enc, ModeOf(fmt))
    reenc,    \* toString(dec, fmt)
    d,        \* toDate's argument (a string or null)
    shape,    \* the fields d was written from
    mode,     \* toDate's tzInterpretation
    parsed    \* toDate(d, mode)

vars == <<zone, pc, date, fmt, enc, dec, reenc, d, shape, mode, parsed>>

(***************************************************************************)
(* Bounds of the model.                                                    *)
(***************************************************************************)
\* most digits of a fractional-seconds part (Postgres: microseconds)
MaxFracDigits == 6
\* how many times of day the sampled Dates take
NumTimes == 2

(***************************************************************************)
(* Values.                                                                 *)
(***************************************************************************)
msPerDay == 24 * 60 * 60 * 1000
msPerMinute == 60 * 1000

\* Date values: null, the invalid Date (time value NaN), or a time value.
NullDate == [k |-> "null", day |-> 0, ms |-> 0]
InvalidDate == [k |-> "invalid", day |-> 0, ms |-> 0]
TimeValue(day, ms) == [k |-> "time", day |-> day, ms |-> ms]

\* String values: null, a string, or no value because the call threw.
NullStr == [k |-> "null", s |-> <<>>]
Str(s) == [k |-> "str", s |-> s]
Raised == [k |-> "raised", s |-> <<>>]
\* what a call that has not been made leaves
NoDate == [k |-> "none", day |-> 0, ms |-> 0]
NoStr == [k |-> "none", s |-> <<>>]
RaisedDate == [k |-> "raised", day |-> 0, ms |-> 0]

\* Numbers as the accessors return them: an integer or NaN.
Num(n) == [nan |-> FALSE, n |-> n]
NaN == [nan |-> TRUE, n |-> 0]
Plus(x, i) == IF x.nan THEN NaN ELSE Num(x.n + i)

(***************************************************************************)
(* ECMA-262 21.4.1: days, years, months.                                   *)
(***************************************************************************)
DaysInYear(y) ==
    IF y % 4 # 0 THEN 365
    ELSE IF y % 100 # 0 THEN 366
    ELSE IF y % 400 # 0 THEN 365 ELSE 366

DayFromYear(y) ==
    365 * (y - 1970) + ((y - 1969) \div 4) - ((y - 1901) \div 100)
        + ((y - 1601) \div 400)

YearFromDay(day) ==
    LET est == 1970 + ((day * 400) \div 146097)
    IN  CHOOSE y \in (est - 2)..(est + 2) :
            DayFromYear(y) <= day /\ day < DayFromYear(y + 1)

InLeapYear(day) == DaysInYear(YearFromDay(day)) = 366

\* the day of the year on which month m (0-indexed) starts
MonthStart(m, leap) ==
    LET l == IF leap THEN 1 ELSE 0
    IN  CASE m = 0 -> 0
          [] m = 1 -> 31
          [] m = 2 -> 59 + l
          [] m = 3 -> 90 + l
          [] m = 4 -> 120 + l
          [] m = 5 -> 151 + l
          [] m = 6 -> 181 + l
          [] m = 7 -> 212 + l
          [] m = 8 -> 243 + l
          [] m = 9 -> 273 + l
          [] m = 10 -> 304 + l
          [] m = 11 -> 334 + l
          [] OTHER -> 365 + l

DayWithinYear(day) == day - DayFromYear(YearFromDay(day))

MonthFromDay(day) ==
    CHOOSE m \in 0..11 :
        /\ MonthStart(m, InLeapYear(day)) <= DayWithinYear(day)
        /\ DayWithinYear(day) < MonthStart(m + 1, InLeapYear(day))

DateFromDay(day) ==
    DayWithinYear(day) - MonthStart(MonthFromDay(day), InLeapYear(day)) + 1

\* MakeDay(year, month, date): month is 0-indexed and may be out of range
MakeDay(year, month, dt) ==
    LET ym == year + (month \div 12)
        mn == month % 12
    IN  DayFromYear(ym) + MonthStart(mn, DaysInYear(ym) = 366) + dt - 1

MakeTime(hour, min, sec, ms) ==
    hour * 3600000 + min * 60000 + sec * 1000 + ms

\* MakeDate(day, time) as a <day, ms> pair; time may be negative or exceed a day
MakeDate(day, time) ==
    TimeValue(day + (time \div msPerDay), time % msPerDay)

\* TimeClip: a time value beyond 8.64e15 ms (100,000,000 days) is NaN
TimeClip(t) ==
    IF t.k # "time" THEN InvalidDate
    ELSE IF t.day > 100000000 \/ (t.day = 100000000 /\ t.ms > 0)
            \/ t.day < -100000000
         THEN InvalidDate
         ELSE t

Before(t, u) == t.day < u.day \/ (t.day = u.day /\ t.ms < u.ms)

AddMinutes(t, mins) == MakeDate(t.day, t.ms + mins * msPerMinute)


(***************************************************************************)
(* The host's local time zone: a standard offset from UTC in minutes and,  *)
(* for a zone with daylight saving, one more hour from DstStart to DstEnd. *)
(***************************************************************************)
Zones ==
    { [std |-> 0, dst |-> FALSE], [std |-> 330, dst |-> FALSE],
      [std |-> -480, dst |-> FALSE], [std |-> 60, dst |-> TRUE] }

\* 2021-03-28T01:00Z and 2021-10-31T01:00Z
DstStart == MakeDate(MakeDay(2021, 2, 28), MakeTime(1, 0, 0, 0))
DstEnd == MakeDate(MakeDay(2021, 9, 31), MakeTime(1, 0, 0, 0))

InDst(z, t) == z.dst /\ ~Before(t, DstStart) /\ Before(t, DstEnd)

\* LocalTZA(t, true): the offset in force at the UTC time value t
OffsetAtUTC(z, t) == IF InDst(z, t) THEN z.std + 60 ELSE z.std

\* LocalTZA(tlocal, false): a local time that repeats (the clocks go back) or
\* is skipped (the clocks go forward) takes the offset before the transition
OffsetAtLocal(z, tl) ==
    IF InDst(z, AddMinutes(tl, -(z.std + 60))) THEN z.std + 60 ELSE z.std

LocalTime(z, t) == AddMinutes(t, OffsetAtUTC(z, t))
UTC(z, tl) == AddMinutes(tl, -OffsetAtLocal(z, tl))

(***************************************************************************)
(* The Date accessors toString reads (date.ts 123-134).                    *)
(***************************************************************************)
getUTCFullYear(dt) == IF dt.k # "time" THEN NaN ELSE Num(YearFromDay(dt.day))
getUTCMonth(dt) == IF dt.k # "time" THEN NaN ELSE Num(MonthFromDay(dt.day))
getUTCDate(dt) == IF dt.k # "time" THEN NaN ELSE Num(DateFromDay(dt.day))
getUTCHours(dt) == IF dt.k # "time" THEN NaN ELSE Num(dt.ms \div 3600000)
getUTCMinutes(dt) == IF dt.k # "time" THEN NaN ELSE Num((dt.ms \div 60000) % 60)
getUTCSeconds(dt) == IF dt.k # "time" THEN NaN ELSE Num((dt.ms \div 1000) % 60)
getUTCMilliseconds(dt) == IF dt.k # "time" THEN NaN ELSE Num(dt.ms % 1000)

Local(z, dt) == IF dt.k # "time" THEN dt ELSE LocalTime(z, dt)
getFullYear(z, dt) == getUTCFullYear(Local(z, dt))
getMonth(z, dt) == getUTCMonth(Local(z, dt))
getDate(z, dt) == getUTCDate(Local(z, dt))
getHours(z, dt) == getUTCHours(Local(z, dt))
getMinutes(z, dt) == getUTCMinutes(Local(z, dt))
getSeconds(z, dt) == getUTCSeconds(Local(z, dt))
getMilliseconds(z, dt) == getUTCMilliseconds(Local(z, dt))

(***************************************************************************)
(* Strings.                                                                *)
(***************************************************************************)
Digits == <<"0", "1", "2", "3", "4", "5", "6", "7", "8", "9">>
IsDigit(c) == \E i \in 1..10 : Digits[i] = c
DigitVal(c) == (CHOOSE i \in 1..10 : Digits[i] = c) - 1

RECURSIVE NatStr(_)
\* the decimal digits of n >= 0
NatStr(n) == IF n < 10 THEN <<Digits[n + 1]>>
             ELSE NatStr(n \div 10) \o <<Digits[(n % 10) + 1]>>

\* String(n)
StringOf(x) ==
    IF x.nan THEN <<"N", "a", "N">>
    ELSE IF x.n < 0 THEN <<"-">> \o NatStr(-x.n) ELSE NatStr(x.n)

RECURSIVE Zeros(_)
Zeros(k) == IF k <= 0 THEN <<>> ELSE <<"0">> \o Zeros(k - 1)

\* pad(n, len = 2) of ./utils: String(n), zero-filled on the left to len
\* n >= 0 written with at least w digits
Field(n, w) == Zeros(w - Len(NatStr(n))) \o NatStr(n)

padStart(s, len) == Zeros(len - Len(s)) \o s
pad(x, len) == padStart(StringOf(x), len)

\* Date.prototype.toISOString of a valid Date: a year outside 0..9999 is
\* written with a sign and six digits
ISOYear(y) ==
    IF y >= 0 /\ y <= 9999 THEN Field(y, 4)
    ELSE IF y < 0 THEN <<"-">> \o Field(-y, 6)
    ELSE <<"+">> \o Field(y, 6)

toISOString(dt) ==
    IF dt.k # "time" THEN Raised    \* RangeError: Invalid time value
    ELSE Str(ISOYear(YearFromDay(dt.day)) \o <<"-">>
             \o Field(MonthFromDay(dt.day) + 1, 2) \o <<"-">>
             \o Field(DateFromDay(dt.day), 2) \o <<"T">>
             \o Field(dt.ms \div 3600000, 2) \o <<":">>
             \o Field((dt.ms \div 60000) % 60, 2) \o <<":">>
             \o Field((dt.ms \div 1000) % 60, 2) \o <<".">>
             \o Field(dt.ms % 1000, 3) \o <<"Z">>)

(***************************************************************************)
(* toString (date.ts 111-137).                                             *)
(***************************************************************************)
Formats == {"timestamptz", "timestamp:UTC", "timestamp:local", "date:UTC",
            "date:local"}

\* stringTypeTz.split(":")
StringTypeOf(f) ==
    IF f \in {"timestamp:UTC", "timestamp:local"} THEN "timestamp"
    ELSE IF f \in {"date:UTC", "date:local"} THEN "date" ELSE f
TzOf(f) ==
    IF f \in {"timestamp:UTC", "date:UTC"} THEN "UTC"
    ELSE IF f \in {"timestamp:local", "date:local"} THEN "local"
    ELSE "undefined"

toStringYear(z, dt, utc) ==
    pad(IF utc THEN getUTCFullYear(dt) ELSE getFullYear(z, dt), 4)
\* (a variant that forgets that getMonth counts from 0)
toStringMonth_ZeroIndexed(z, dt, utc) ==
    pad(IF utc THEN getUTCMonth(dt) ELSE getMonth(z, dt), 2)

toStringMonth(z, dt, utc) ==
    pad(Plus(IF utc THEN getUTCMonth(dt) ELSE getMonth(z, dt), 1), 2)
toStringDay(z, dt, utc) ==
    pad(IF utc THEN getUTCDate(dt) ELSE getDate(z, dt), 2)
\* (a variant that reads the time of day with the UTC accessors only)
toStringTime_AlwaysUTC(z, dt, utc) ==
    pad(getUTCHours(dt), 2) \o <<":">> \o pad(getUTCMinutes(dt), 2)
    \o <<":">> \o pad(getUTCSeconds(dt), 2) \o <<".">>
    \o pad(getUTCMilliseconds(dt), 3)

toStringTime(z, dt, utc) ==
    pad(IF utc THEN getUTCHours(dt) ELSE getHours(z, dt), 2) \o <<":">>
    \o pad(IF utc THEN getUTCMinutes(dt) ELSE getMinutes(z, dt), 2) \o <<":">>
    \o pad(IF utc THEN getUTCSeconds(dt) ELSE getSeconds(z, dt), 2) \o <<".">>
    \o pad(IF utc THEN getUTCMilliseconds(dt) ELSE getMilliseconds(z, dt), 3)

\* (a variant with no null check: reading a field of null throws)
toString_NullRaises(z, dt, stringTypeTz) ==
    IF dt.k = "null" THEN Raised
    ELSE IF stringTypeTz = "timestamptz" THEN toISOString(dt)
    ELSE IF StringTypeOf(stringTypeTz) = "date"
    THEN Str(toStringYear(z, dt, TzOf(stringTypeTz) = "UTC") \o <<"-">>
             \o toStringMonth(z, dt, TzOf(stringTypeTz) = "UTC") \o <<"-">>
             \o toStringDay(z, dt, TzOf(stringTypeTz) = "UTC"))
    ELSE Str(toStringYear(z, dt, TzOf(stringTypeTz) = "UTC") \o <<"-">>
             \o toStringMonth(z, dt, TzOf(stringTypeTz) = "UTC") \o <<"-">>
             \o toStringDay(z, dt, TzOf(stringTypeTz) = "UTC") \o <<"T">>
             \o toStringTime(z, dt, TzOf(stringTypeTz) = "UTC"))

\* (a variant that writes timestamptz from the local fields)
toString_TzLocal(z, dt, stringTypeTz) ==
    IF dt.k = "null" THEN NullStr
    ELSE IF stringTypeTz = "timestamptz"
    THEN IF dt.k # "time" THEN Raised
         ELSE Str(toStringYear(z, dt, FALSE) \o <<"-">>
                  \o toStringMonth(z, dt, FALSE) \o <<"-">>
                  \o toStringDay(z, dt, FALSE) \o <<"T">>
                  \o toStringTime(z, dt, FALSE) \o <<"Z">>)
    ELSE IF StringTypeOf(stringTypeTz) = "date"
    THEN Str(toStringYear(z, dt, TzOf(stringTypeTz) = "UTC") \o <<"-">>
             \o toStringMonth(z, dt, TzOf(stringTypeTz) = "UTC") \o <<"-">>
             \o toStringDay(z, dt, TzOf(stringTypeTz) = "UTC"))
    ELSE Str(toStringYear(z, dt, TzOf(stringTypeTz) = "UTC") \o <<"-">>
             \o toStringMonth(z, dt, TzOf(stringTypeTz) = "UTC") \o <<"-">>
             \o toStringDay(z, dt, TzOf(stringTypeTz) = "UTC") \o <<"T">>
             \o toStringTime(z, dt, TzOf(stringTypeTz) = "UTC"))

toString(z, dt, stringTypeTz) ==
    IF dt.k = "null" THEN NullStr
    ELSE IF stringTypeTz = "timestamptz" THEN toISOString(dt)
    ELSE LET utc == TzOf(stringTypeTz) = "UTC"
             ymd == toStringYear(z, dt, utc) \o <<"-">>
                    \o toStringMonth(z, dt, utc) \o <<"-">>
                    \o toStringDay(z, dt, utc)
         IN  IF StringTypeOf(stringTypeTz) = "date" THEN Str(ymd)
             ELSE Str(ymd \o <<"T">> \o toStringTime(z, dt, utc))

(***************************************************************************)
(* new Date(string): V8's date parser.  The tokenizer.                     *)
(***************************************************************************)
IsSymbol(c) == c \in {"-", ":", ".", "+"}
IsWordChar(c) == ~IsDigit(c) /\ ~IsSymbol(c)

NumTok(n, len) == [t |-> "num", n |-> n, len |-> len, c |-> ""]
SymTok(c) == [t |-> "sym", n |-> 0, len |-> 1, c |-> c]
\* a word: T, Z, or a word that is neither (month and zone names, AM and PM
\* are not written by any input of the model)
WordTok(w) ==
    [t |-> "kw", n |-> 0, len |-> Len(w),
     c |-> IF w \in {<<"T">>, <<"t">>} THEN "T"
           ELSE IF w \in {<<"Z">>, <<"z">>} THEN "Z" ELSE "?"]
EndTok == [t |-> "end", n |-> 0, len |-> 0, c |-> ""]

RECURSIVE DigitRunEnd(_, _)
\* the index after the run of digits that starts at i
DigitRunEnd(s, i) ==
    IF i <= Len(s) /\ IsDigit(s[i]) THEN DigitRunEnd(s, i + 1) ELSE i

RECURSIVE WordRunEnd(_, _)
WordRunEnd(s, i) ==
    IF i <= Len(s) /\ IsWordChar(s[i]) THEN WordRunEnd(s, i + 1) ELSE i

RECURSIVE SkipZeros(_, _)
SkipZeros(s, i) ==
    IF i <= Len(s) /\ s[i] = "0" THEN SkipZeros(s, i + 1) ELSE i

RECURSIVE ReadDigits(_, _, _, _)
\* the value of the digits from i on, of which only the first 9 count
ReadDigits(s, i, n, k) ==
    IF i <= Len(s) /\ IsDigit(s[i])
    THEN ReadDigits(s, i + 1, IF k < 9 THEN n * 10 + DigitVal(s[i]) ELSE n, k + 1)
    ELSE n

\* leading zeros are skipped, then at most 9 significant digits are read
ReadUnsignedNumeral(s, i) == ReadDigits(s, SkipZeros(s, i), 0, 0)

RECURSIVE Tokenize(_, _)
Tokenize(s, i) ==
    IF i > Len(s) THEN <<>>
    ELSE IF IsDigit(s[i])
         THEN <<NumTok(ReadUnsignedNumeral(s, i), DigitRunEnd(s, i) - i)>>
              \o Tokenize(s, DigitRunEnd(s, i))
    ELSE IF IsWordChar(s[i])
         THEN <<WordTok(SubSeq(s, i, WordRunEnd(s, i) - 1))>>
              \o Tokenize(s, WordRunEnd(s, i))
    ELSE <<SymTok(s[i])>> \o Tokenize(s, i + 1)

Tok(toks, i) == IF i >= 1 /\ i <= Len(toks) THEN toks[i] ELSE EndTok
IsFixedNumber(tok, len) == tok.t = "num" /\ tok.len = len
IsSym(tok, c) == tok.t = "sym" /\ tok.c = c
IsAsciiSign(tok) == IsSym(tok, "+") \/ IsSym(tok, "-")
IsKeywordT(tok) == tok.t = "kw" /\ tok.c = "T"
IsKeywordZ(tok) == tok.t = "kw" /\ tok.c = "Z"
SignOf(tok) == IF tok.c = "+" THEN 1 ELSE -1

IsMonth(x) == x >= 1 /\ x <= 12
IsDay(x) == x >= 1 /\ x <= 31
IsHour(x) == x >= 0 /\ x <= 23
IsMinute(x) == x >= 0 /\ x <= 59
IsSecond(x) == x >= 0 /\ x <= 59
IsMillisecond(x) == x >= 0 /\ x <= 999

RECURSIVE Pow10(_)
Pow10(k) == IF k <= 0 THEN 1 ELSE 10 * Pow10(k - 1)

\* (a variant that rounds to the nearest millisecond)
ReadMilliseconds_Rounds(tok) ==
    IF tok.len = 1 THEN tok.n * 100
    ELSE IF tok.len = 2 THEN tok.n * 10
    ELSE IF tok.len > 3
         THEN (tok.n + (Pow10((IF tok.len > 9 THEN 9 ELSE tok.len) - 3) \div 2))
              \div Pow10((IF tok.len > 9 THEN 9 ELSE tok.len) - 3)
         ELSE tok.n

\* the three most significant digits of a fraction: more digits are cut
\* off, not rounded
ReadMilliseconds(tok) ==
    IF tok.len = 1 THEN tok.n * 100
    ELSE IF tok.len = 2 THEN tok.n * 10
    ELSE IF tok.len > 3
         THEN tok.n \div Pow10((IF tok.len > 9 THEN 9 ELSE tok.len) - 3)
         ELSE tok.n

(***************************************************************************)
(* The composers: the day (up to 3 numbers), the time (up to 4) and the    *)
(* zone (sign, hour, minute: kNone while unset).                           *)
(***************************************************************************)
kNone == -1
NoTz == [sign |-> kNone, hour |-> kNone, minute |-> kNone]
TzSet(mins) == [sign |-> 1, hour |-> 0, minute |-> mins]

PState(st, pos, day, time, tz, hrn) ==
    [st |-> st, pos |-> pos, day |-> day, time |-> time, tz |-> tz,
     hrn |-> hrn]
PInvalid == PState("invalid", 0, <<>>, <<>>, NoTz, FALSE)

(***************************************************************************)
(* ParseES5DateTime: the ECMA-262 date-time format, read strictly.  It     *)
(* ends "end" (the whole string was in the format), "invalid", or "legacy" *)
(* with pos the first token it did not use: the legacy parser goes on from *)
(* there with the day numbers read so far.                                 *)
(***************************************************************************)
\* [-+]yyyyyy or yyyy
ES5Year(toks) ==
    IF IsAsciiSign(Tok(toks, 1))
    THEN IF ~IsFixedNumber(Tok(toks, 2), 6)
         THEN PState("legacy", 1, <<>>, <<>>, NoTz, FALSE)
         ELSE IF SignOf(Tok(toks, 1)) < 0 /\ Tok(toks, 2).n = 0
         THEN PState("legacy", 3, <<>>, <<>>, NoTz, FALSE)
         ELSE PState("ok", 3, <<SignOf(Tok(toks, 1)) * Tok(toks, 2).n>>,
                     <<>>, NoTz, FALSE)
    ELSE IF IsFixedNumber(Tok(toks, 1), 4)
    THEN PState("ok", 2, <<Tok(toks, 1).n>>, <<>>, NoTz, FALSE)
    ELSE PState("legacy", 1, <<>>, <<>>, NoTz, FALSE)

\* one more "-NN" field of the date, checked by IsMonth (which = 1) or IsDay
ES5DateField(toks, p, which) ==
    IF p.st # "ok" \/ Len(p.day) # which \/ ~IsSym(Tok(toks, p.pos), "-")
    THEN p
    ELSE LET tok == Tok(toks, p.pos + 1)
         IN  IF ~IsFixedNumber(tok, 2)
                \/ (which = 1 /\ ~IsMonth(tok.n)) \/ (which = 2 /\ ~IsDay(tok.n))
             THEN [p EXCEPT !.st = "legacy", !.pos = p.pos + 1]
             ELSE [p EXCEPT !.pos = p.pos + 2, !.day = p.day \o <<tok.n>>]

\* HH:mm[:ss[.sss]] from token q on: [ok, time, pos]
ES5Time(toks, q) ==
    LET h == Tok(toks, q)
        m == Tok(toks, q + 2)
        sc == Tok(toks, q + 4)
        f == Tok(toks, q + 6)
        h24 == h.n = 24
        bad == [ok |-> FALSE, time |-> <<>>, pos |-> q]
    IN  IF ~IsFixedNumber(h, 2) \/ h.n > 24 THEN bad
        ELSE IF ~IsSym(Tok(toks, q + 1), ":") THEN bad
        ELSE IF ~IsFixedNumber(m, 2) \/ ~IsMinute(m.n) \/ (h24 /\ m.n > 0)
        THEN bad
        ELSE IF ~IsSym(Tok(toks, q + 3), ":")
        THEN [ok |-> TRUE, time |-> <<h.n, m.n>>, pos |-> q + 3]
        ELSE IF ~IsFixedNumber(sc, 2) \/ ~IsSecond(sc.n) \/ (h24 /\ sc.n > 0)
        THEN bad
        ELSE IF ~IsSym(Tok(toks, q + 5), ".")
        THEN [ok |-> TRUE, time |-> <<h.n, m.n, sc.n>>, pos |-> q + 5]
        ELSE IF f.t # "num" \/ (h24 /\ f.n > 0) THEN bad
        ELSE [ok |-> TRUE, time |-> <<h.n, m.n, sc.n, ReadMilliseconds(f)>>,
              pos |-> q + 7]

\* 'Z' | [+-]hhmm | [+-]hh:mm from token q on: [ok, tz, pos]
ES5Zone(toks, q) ==
    LET sg == Tok(toks, q)
        a == Tok(toks, q + 1)
        b == Tok(toks, q + 3)
        bad == [ok |-> FALSE, tz |-> NoTz, pos |-> q]
    IN  IF IsKeywordZ(sg) THEN [ok |-> TRUE, tz |-> TzSet(0), pos |-> q + 1]
        ELSE IF ~IsAsciiSign(sg) THEN [ok |-> TRUE, tz |-> NoTz, pos |-> q]
        ELSE IF IsFixedNumber(a, 4)
        THEN IF ~IsHour(a.n \div 100) \/ ~IsMinute(a.n % 100) THEN bad
             ELSE [ok |-> TRUE, pos |-> q + 2,
                   tz |-> [sign |-> SignOf(sg), hour |-> a.n \div 100,
                           minute |-> a.n % 100]]
        ELSE IF ~IsFixedNumber(a, 2) \/ ~IsHour(a.n) THEN bad
        ELSE IF ~IsSym(Tok(toks, q + 2), ":") THEN bad
        ELSE IF ~IsFixedNumber(b, 2) \/ ~IsMinute(b.n) THEN bad
        ELSE [ok |-> TRUE, pos |-> q + 4,
              tz |-> [sign |-> SignOf(sg), hour |-> a.n, minute |-> b.n]]

\* the date is read: the time is, and the zone is to come
ES5AfterTime(toks, p, tm) ==
    IF ~tm.ok THEN PInvalid
    ELSE [p EXCEPT !.pos = tm.pos, !.time = tm.time]

\* the time is read: the zone, and then the string must end
ES5AfterZone(toks, p, zn) ==
    IF p.st # "ok" THEN p
    ELSE IF ~zn.ok THEN PInvalid
    ELSE IF Tok(toks, zn.pos).t # "end" THEN PInvalid
    \* a date and time with no zone is local time
    ELSE [p EXCEPT !.st = "end", !.pos = zn.pos, !.tz = zn.tz]

ES5AfterDate(toks, p) ==
    IF p.st # "ok" THEN p
    ELSE IF ~IsKeywordT(Tok(toks, p.pos))
    THEN IF Tok(toks, p.pos).t # "end" THEN [p EXCEPT !.st = "legacy"]
         \* a date alone is UTC
         ELSE [p EXCEPT !.st = "end", !.tz = TzSet(0)]
    ELSE ES5AfterTime(toks, p, ES5Time(toks, p.pos + 1))

ES5ZoneOf(toks, p) ==
    IF p.st = "ok" THEN ES5AfterZone(toks, p, ES5Zone(toks, p.pos)) ELSE p

ParseES5DateTime(toks) ==
    ES5ZoneOf(toks,
        ES5AfterDate(toks,
            ES5DateField(toks, ES5DateField(toks, ES5Year(toks), 1), 2)))

(***************************************************************************)
(* The legacy parser: what is left after ParseES5DateTime stopped.         *)
(***************************************************************************)
TimeIsExpecting(time, n) ==
    \/ Len(time) = 1 /\ IsMinute(n)
    \/ Len(time) = 2 /\ IsSecond(n)
    \/ Len(time) = 3 /\ IsMillisecond(n)

\* AddFinal: the number, then zeros for the fields that were not written
TimeAddFinal(time, n) ==
    time \o <<n>> \o [i \in 1..(3 - Len(time)) |-> 0]

TzIsExpecting(tz) == tz.hour # kNone /\ tz.minute = kNone
TzIsUTC(tz) == tz.hour = 0 /\ tz.minute = 0

\* a number token at p.pos
LegacyNumber(toks, p) ==
    LET n == Tok(toks, p.pos).n
        colon == IsSym(Tok(toks, p.pos + 1), ":")
        dot == IsSym(Tok(toks, p.pos + 1), ".")
        \* SkipSymbol('.') uses up the '.' whether or not a time is expected
        j == IF dot THEN p.pos + 2 ELSE p.pos + 1
        q == [p EXCEPT !.hrn = TRUE]
    IN  IF colon
        THEN IF IsSym(Tok(toks, p.pos + 2), ":")
             THEN IF Len(p.time) # 0 THEN PInvalid
                  ELSE [q EXCEPT !.time = <<n, 0>>, !.pos = p.pos + 3]
             ELSE IF Len(p.time) >= 4 THEN PInvalid
                  ELSE [q EXCEPT !.time = p.time \o <<n>>,
                                 !.pos = IF IsSym(Tok(toks, p.pos + 2), ".")
                                         THEN p.pos + 3 ELSE p.pos + 2]
        ELSE IF dot /\ TimeIsExpecting(p.time, n)
        THEN IF Tok(toks, j).t # "num" THEN PInvalid
             ELSE [q EXCEPT !.time = TimeAddFinal(p.time \o <<n>>,
                                         ReadMilliseconds(Tok(toks, j))),
                            !.pos = j + 1]
        ELSE IF TzIsExpecting(p.tz)
        THEN [q EXCEPT !.tz.minute = n, !.pos = j]
        ELSE IF TimeIsExpecting(p.time, n)
        THEN IF Tok(toks, j).t # "end" /\ ~IsKeywordZ(Tok(toks, j))
                /\ ~IsAsciiSign(Tok(toks, j))
             THEN PInvalid
             ELSE [q EXCEPT !.time = TimeAddFinal(p.time, n), !.pos = j]
        ELSE IF Len(p.day) >= 3 THEN PInvalid
        ELSE [q EXCEPT !.day = p.day \o <<n>>,
                       !.pos = IF IsSym(Tok(toks, j), "-") THEN j + 1 ELSE j]

\* a word at p.pos: Z names a zone once a number was read; any other word
\* is garbage, which may only come before the first number
LegacyKeyword(toks, p) ==
    IF IsKeywordZ(Tok(toks, p.pos)) /\ p.hrn
    THEN [p EXCEPT !.tz = TzSet(0), !.pos = p.pos + 1]
    ELSE IF p.hrn \/ Tok(toks, p.pos + 1).t = "num" THEN PInvalid
    ELSE [p EXCEPT !.pos = p.pos + 1]

\* a sign at p.pos after UTC or after a time: a UTC offset
LegacySign(toks, p) ==
    LET sg == SignOf(Tok(toks, p.pos))
        has == Tok(toks, p.pos + 1).t = "num"
        n == IF has THEN Tok(toks, p.pos + 1).n ELSE 0
        len == IF has THEN Tok(toks, p.pos + 1).len ELSE 0
        j == IF has THEN p.pos + 2 ELSE p.pos + 1
        q == [p EXCEPT !.hrn = TRUE, !.pos = j]
    IN  IF IsSym(Tok(toks, j), ":")
        THEN [q EXCEPT !.tz = [sign |-> sg, hour |-> n, minute |-> kNone]]
        ELSE IF len \in {1, 2}
        THEN [q EXCEPT !.tz = [sign |-> sg, hour |-> n, minute |-> 0]]
        ELSE IF len \in {3, 4}
        THEN [q EXCEPT !.tz = [sign |-> sg, hour |-> n \div 100,
                               minute |-> n % 100]]
        ELSE PInvalid

RECURSIVE LegacyParse(_, _)
LegacyParse(toks, p) ==
    LET tok == Tok(toks, p.pos)
    IN  IF p.st # "legacy" THEN p
        ELSE IF tok.t = "end" THEN [p EXCEPT !.st = "end"]
        ELSE IF tok.t = "num" THEN LegacyParse(toks, LegacyNumber(toks, p))
        ELSE IF tok.t = "kw" THEN LegacyParse(toks, LegacyKeyword(toks, p))
        ELSE IF IsAsciiSign(tok) /\ (TzIsUTC(p.tz) \/ Len(p.time) # 0)
        THEN LegacyParse(toks, LegacySign(toks, p))
        ELSE IF IsAsciiSign(tok) /\ p.hrn THEN PInvalid
        ELSE LegacyParse(toks, [p EXCEPT !.pos = p.pos + 1])

(***************************************************************************)
(* Writing the composers out, and Date.parse.                              *)
(***************************************************************************)
Fill(seq, len, x) == seq \o [i \in 1..(len - Len(seq)) |-> x]

\* [ok, year, month, day]: an ISO date is year-month-day as written; a legacy
\* date is year-month-day only if its first number cannot be a day, and its
\* year, when 0..49 or 50..99, is of the 2000s or the 1900s
DayWrite(day, iso) ==
    LET c == Fill(day, 3, 1)
        ymd == iso \/ ~IsDay(c[1])
        year == IF ymd THEN c[1] ELSE c[3]
        y2 == IF iso THEN year
              ELSE IF year >= 0 /\ year <= 49 THEN year + 2000
              ELSE IF year >= 50 /\ year <= 99 THEN year + 1900
              ELSE year
        month == IF ymd THEN c[2] ELSE c[1]
        dy == IF ymd THEN c[3] ELSE c[2]
    IN  [ok |-> Len(day) >= 1 /\ IsMonth(month) /\ IsDay(dy),
         year |-> y2, month |-> month - 1, day |-> dy]

\* [ok, ms]: 24:00:00.000 is allowed
TimeWrite(time) ==
    LET c == Fill(time, 4, 0)
    IN  [ok |-> \/ IsHour(c[1]) /\ IsMinute(c[2]) /\ IsSecond(c[3])
                   /\ IsMillisecond(c[4])
                \/ c[1] = 24 /\ c[2] = 0 /\ c[3] = 0 /\ c[4] = 0,
         ms |-> MakeTime(c[1], c[2], c[3], c[4])]

\* the UTC offset in minutes
TzWrite(tz) ==
    tz.sign * ((IF tz.hour = kNone THEN 0 ELSE tz.hour) * 60
               + (IF tz.minute = kNone THEN 0 ELSE tz.minute))

\* the time value of the composers, or NaN
DateOfComposers(z, p, dw, tw) ==
    IF p.st # "end" \/ ~dw.ok \/ ~tw.ok THEN InvalidDate
    ELSE IF p.tz.sign = kNone
    THEN TimeClip(UTC(z, MakeDate(MakeDay(dw.year, dw.month, dw.day), tw.ms)))
    ELSE TimeClip(AddMinutes(MakeDate(MakeDay(dw.year, dw.month, dw.day),
                                      tw.ms),
                             -TzWrite(p.tz)))

DateOfParse(z, p, iso) ==
    DateOfComposers(z, p, DayWrite(p.day, iso), TimeWrite(p.time))

\* the legacy parser goes on where the ES5 parser stopped
DateOfES5(z, toks, es5) ==
    DateOfParse(z, LegacyParse(toks, [es5 EXCEPT !.hrn = Len(es5.day) # 0]),
                es5.st = "end")

\* Date.parse: the time value, or NaN
DateOfTokens(z, toks) == DateOfES5(z, toks, ParseES5DateTime(toks))
DateParse(z, s) == DateOfTokens(z, Tokenize(s, 1))

(***************************************************************************)
(* toDate (date.ts 57-84).                                                 *)
(***************************************************************************)
Modes == {"undefined", "UTC", "local"}

\* (a variant whose groups may be empty: [0-9]* for [0-9]+)
dateMatch_Star(s) ==
    IF /\ DigitRunEnd(s, 1) <= Len(s) /\ s[DigitRunEnd(s, 1)] = "-"
       /\ DigitRunEnd(s, DigitRunEnd(s, 1) + 1) <= Len(s)
       /\ s[DigitRunEnd(s, DigitRunEnd(s, 1) + 1)] = "-"
       /\ DigitRunEnd(s, DigitRunEnd(s, DigitRunEnd(s, 1) + 1) + 1)
              = Len(s) + 1
    THEN [ok |-> TRUE, y |-> SubSeq(s, 1, DigitRunEnd(s, 1) - 1),
          m |-> SubSeq(s, DigitRunEnd(s, 1) + 1,
                       DigitRunEnd(s, DigitRunEnd(s, 1) + 1) - 1),
          d |-> SubSeq(s, DigitRunEnd(s, DigitRunEnd(s, 1) + 1) + 1, Len(s))]
    ELSE [ok |-> FALSE, y |-> <<>>, m |-> <<>>, d |-> <<>>]

\* d.match(/^([0-9]+)-([0-9]+)-([0-9]+)$/): [ok, y, m, d]
dateMatch(s) ==
    LET e1 == DigitRunEnd(s, 1)
        e2 == DigitRunEnd(s, e1 + 1)
        e3 == DigitRunEnd(s, e2 + 1)
        ok == /\ e1 > 1 /\ e1 <= Len(s) /\ s[e1] = "-"
              /\ e2 > e1 + 1 /\ e2 <= Len(s) /\ s[e2] = "-"
              /\ e3 > e2 + 1 /\ e3 = Len(s) + 1
    IN  IF ok THEN [ok |-> TRUE, y |-> SubSeq(s, 1, e1 - 1),
                    m |-> SubSeq(s, e1 + 1, e2 - 1),
                    d |-> SubSeq(s, e2 + 1, e3 - 1)]
        ELSE [ok |-> FALSE, y |-> <<>>, m |-> <<>>, d |-> <<>>]

\* parseInt(s, 10) of a string of digits (of at most 9 digits, as every group
\* of the model's strings is); NaN for the empty string
parseInt(s) == IF Len(s) = 0 THEN NaN ELSE Num(ReadDigits(s, 1, 0, 0))

\* new Date(year, month, date): local midnight; a year 0..99 is 1900 + year
DateOfFields(z, year, month, dt) ==
    IF year.nan \/ month.nan \/ dt.nan THEN InvalidDate
    ELSE LET yr == IF year.n >= 0 /\ year.n <= 99 THEN 1900 + year.n
                   ELSE year.n
         IN  TimeClip(UTC(z, MakeDate(MakeDay(yr, month.n, dt.n), 0)))

toDateMatched(z, s, mt) ==
    IF mt.ok
    THEN IF Len(mt.y) = 0 \/ Len(mt.m) = 0 \/ Len(mt.d) = 0
         THEN RaisedDate    \* throw new Error("y m d; TODO: proper error")
         ELSE DateOfFields(z, parseInt(mt.y), Plus(parseInt(mt.m), -1),
                           parseInt(mt.d))
    ELSE DateParse(z, s)

toDateLocal(z, s) == toDateMatched(z, s, dateMatch(s))

\* (a variant that does not append the Z for "UTC")
toDate_NoZ(z, str, tzInterpretation) ==
    IF str.k = "null" THEN NullDate
    ELSE IF tzInterpretation = "undefined" THEN DateParse(z, str.s)
    ELSE IF tzInterpretation = "UTC" THEN DateParse(z, str.s)
    ELSE toDateLocal(z, str.s)

toDate(z, str, tzInterpretation) ==
    IF str.k = "null" THEN NullDate
    ELSE IF tzInterpretation = "undefined" THEN DateParse(z, str.s)
    ELSE IF tzInterpretation = "UTC" THEN DateParse(z, str.s \o <<"Z">>)
    ELSE toDateLocal(z, str.s)

\* the interpretation that goes with a format
ModeOf(f) == TzOf(f)

(***************************************************************************)
(* The inputs of the model.                                                *)
(***************************************************************************)
\* Dates: civil days (as UTC year, month, day) at some times of day
SampleDays ==
    { <<2021, 5, 25>>, <<2021, 3, 28>>, <<2021, 10, 31>>, <<2020, 2, 29>>,
      <<1999, 12, 31>>, <<1970, 1, 1>>, <<0, 1, 1>>, <<12, 5, 25>>,
      <<50, 1, 1>>, <<99, 12, 31>>, <<100, 1, 1>>, <<9999, 12, 31>>,
      <<10000, 1, 1>>, <<-1, 12, 31>> }

\* 00:00:00.000, 14:41:10.249, ... and the half hours around 01:00 UTC
SampleTimes ==
    { (k * MakeTime(14, 41, 10, 249)) % msPerDay : k \in 0..NumTimes }
    \cup { MakeTime(0, 30, 0, 0), MakeTime(1, 30, 0, 0),
           MakeTime(23, 59, 59, 999) }

SampleDates ==
    { MakeDate(MakeDay(c[1], c[2] - 1, c[3]), t) :
        c \in SampleDays, t \in SampleTimes }
    \cup {NullDate, InvalidDate}

\* Strings: the fields a string is written from
FracBases ==
    { <<"2", "4", "9", "9", "9", "7", "5", "5", "5", "5">>,
      <<"9", "9", "9", "9", "9", "9", "9", "9", "9", "9">>,
      <<"0", "0", "0", "9", "9", "9", "9", "9", "9", "9">> }

\* a time of day as written: sec = kNone and frac = <<>> when left out
TimeForms ==
    { [h |-> 14, mi |-> 41, sec |-> kNone, frac |-> <<>>],
      [h |-> 14, mi |-> 41, sec |-> 10, frac |-> <<>>],
      [h |-> 2, mi |-> 30, sec |-> 0, frac |-> <<"5">>],
      [h |-> 0, mi |-> 0, sec |-> 0, frac |-> <<"2", "4", "9">>] }
    \cup { [h |-> 23, mi |-> 59, sec |-> 59, frac |-> SubSeq(b, 1, k)] :
             b \in FracBases, k \in (MaxFracDigits - 2)..MaxFracDigits }
NoTime == [h |-> 0, mi |-> 0, sec |-> kNone, frac |-> <<>>]

\* zone suffixes, with the offset in minutes each states
Suffixes ==
    { [s |-> <<>>, off |-> 0], [s |-> <<"Z">>, off |-> 0],
      [s |-> <<"+", "0", "1", ":", "0", "0">>, off |-> 60],
      [s |-> <<"-", "0", "8", "0", "0">>, off |-> -480],
      [s |-> <<"-", "0", "2">>, off |-> -120] }
NoSuffix == [s |-> <<>>, off |-> 0]

StringDays ==
    { <<2021, 5, 25>>, <<2021, 3, 28>>, <<2021, 10, 31>>, <<2020, 2, 29>>,
      <<12, 5, 25>>, <<50, 1, 1>>, <<9999, 12, 31>> }

\* strings that are not zero-padded, not dates at all, or not calendar dates
RawStrings ==
    { <<>>, <<"2", "0", "2", "1", "-", "5", "-", "2", "5">>,
      <<"2", "0", "2", "1", "-", "1", "3", "-", "0", "1">>,
      <<"1", "0", "0", "0", "0", "-", "0", "1", "-", "0", "1">>,
      <<"2", "0", "2", "1", "-", "0", "5", "-">>,
      <<"-", "-">>, <<"N", "a", "N">> }

Shape(kind, c, tm, sfx, raw) ==
    [kind |-> kind, y |-> c[1], m |-> c[2], dd |-> c[3], tm |-> tm,
     sfx |-> sfx, raw |-> raw]
NoShape == Shape("none", <<0, 0, 0>>, NoTime, NoSuffix, <<>>)

\* every day with no suffix, two days with every suffix
Shapes ==
    { Shape("date", c, NoTime, NoSuffix, <<>>) : c \in StringDays }
    \cup { Shape("timestamp", c, tm, NoSuffix, <<>>) :
             c \in StringDays, tm \in TimeForms }
    \cup { Shape("timestamp", c, tm, sfx, <<>>) :
             c \in {<<2021, 10, 31>>, <<50, 1, 1>>}, tm \in TimeForms,
             sfx \in Suffixes }
    \cup { Shape("raw", <<0, 0, 0>>, NoTime, NoSuffix, r) : r \in RawStrings }
    \cup { Shape("null", <<0, 0, 0>>, NoTime, NoSuffix, <<>>) }

\* the string a shape writes
Compose(sh) ==
    LET ymd == Field(sh.y, 4) \o <<"-">> \o Field(sh.m, 2) \o <<"-">>
               \o Field(sh.dd, 2)
        hm == Field(sh.tm.h, 2) \o <<":">> \o Field(sh.tm.mi, 2)
        sec == IF sh.tm.sec = kNone THEN <<>>
               ELSE <<":">> \o Field(sh.tm.sec, 2)
        frac == IF sh.tm.frac = <<>> THEN <<>> ELSE <<".">> \o sh.tm.frac
    IN  IF sh.kind = "null" THEN NullStr
        ELSE IF sh.kind = "raw" THEN Str(sh.raw)
        ELSE IF sh.kind = "date" THEN Str(ymd)
        ELSE Str(ymd \o <<"T">> \o hm \o sec \o frac \o sh.sfx.s)

(***************************************************************************)
(* The calls.                                                              *)
(***************************************************************************)
Init ==
    /\ zone \in Zones
    /\ pc = "start"
    /\ date = NoDate /\ fmt = "none" /\ enc = NoStr
    /\ dec = NoDate /\ reenc = NoStr
    /\ d = NoStr /\ shape = NoShape /\ mode = "none" /\ parsed = NoDate

\* toString(dt, f).  The functions keep no state: each behaviour is one
\* call, or one call and the calls made on its result.
ToString(dt, f) ==
    /\ pc = "start"
    /\ date' = dt /\ fmt' = f
    /\ enc' = toString(zone, dt, f)
    /\ dec' = NoDate /\ reenc' = NoStr
    /\ d' = NoStr /\ shape' = NoShape /\ mode' = "none" /\ parsed' = NoDate
    /\ pc' = "encoded"
    /\ UNCHANGED zone

\* toDate(toString(date, fmt), ModeOf(fmt)): the string goes back
ToDateOfEncoded ==
    /\ pc = "encoded" /\ enc.k \in {"str", "null"}
    /\ dec' = toDate(zone, enc, ModeOf(fmt))
    /\ pc' = "decoded"
    /\ UNCHANGED <<zone, date, fmt, enc, reenc, d, shape, mode, parsed>>

\* toString(toDate(toString(date, fmt), ModeOf(fmt)), fmt): and out again
ToStringOfDecoded ==
    /\ pc = "decoded" /\ dec.k # "raised"
    /\ reenc' = toString(zone, dec, fmt)
    /\ pc' = "reencoded"
    /\ UNCHANGED <<zone, date, fmt, enc, dec, d, shape, mode, parsed>>

\* toDate(Compose(sh), m)
ToDate(sh, m) ==
    /\ pc = "start"
    /\ d' = Compose(sh) /\ shape' = sh /\ mode' = m
    /\ parsed' = toDate(zone, Compose(sh), m)
    /\ date' = NoDate /\ fmt' = "none" /\ enc' = NoStr
    /\ dec' = NoDate /\ reenc' = NoStr
    /\ pc' = "parsed"
    /\ UNCHANGED zone

Next ==
    \/ \E dt \in SampleDates, f \in Formats : ToString(dt, f)
    \/ ToDateOfEncoded
    \/ ToStringOfDecoded
    \/ \E sh \in Shapes, m \in Modes : ToDate(sh, m)

Spec == Init /\ [][Next]_vars

(***************************************************************************)
(* What the claims speak of, stated without the code's own operators where *)
(* that is possible: the text of a string is read position by position.    *)
(***************************************************************************)
AllDigits(s, i, w) == \A k \in i..(i + w - 1) : k <= Len(s) /\ IsDigit(s[k])
NumAt(s, i, w) == ReadDigits(SubSeq(s, i, i + w - 1), 1, 0, 0)
CharAt(s, i, c) == i <= Len(s) /\ s[i] = c

\* -MM-DD after a year that ends at position yl, for the day of time value t
DateTextIs(s, yl, t) ==
    /\ CharAt(s, yl + 1, "-") /\ AllDigits(s, yl + 2, 2)
    /\ CharAt(s, yl + 4, "-") /\ AllDigits(s, yl + 5, 2)
    /\ NumAt(s, yl + 2, 2) = MonthFromDay(t.day) + 1
    /\ NumAt(s, yl + 5, 2) = DateFromDay(t.day)

\* THH:MM:SS.fff after a date that ends at position dl, for the time of t
TimeTextIs(s, dl, t) ==
    /\ CharAt(s, dl + 1, "T") /\ AllDigits(s, dl + 2, 2)
    /\ CharAt(s, dl + 4, ":") /\ AllDigits(s, dl + 5, 2)
    /\ CharAt(s, dl + 7, ":") /\ AllDigits(s, dl + 8, 2)
    /\ CharAt(s, dl + 10, ".") /\ AllDigits(s, dl + 11, 3)
    /\ NumAt(s, dl + 2, 2) = t.ms \div 3600000
    /\ NumAt(s, dl + 5, 2) = (t.ms \div 60000) % 60
    /\ NumAt(s, dl + 8, 2) = (t.ms \div 1000) % 60
    /\ NumAt(s, dl + 11, 3) = t.ms % 1000

\* YYYY for the year of t
Year4Is(s, t) == AllDigits(s, 1, 4) /\ NumAt(s, 1, 4) = YearFromDay(t.day)

\* +YYYYYY or -YYYYYY for the year of t
Year6Is(s, t) ==
    /\ CharAt(s, 1, IF YearFromDay(t.day) < 0 THEN "-" ELSE "+")
    /\ AllDigits(s, 2, 6)
    /\ NumAt(s, 2, 6) = (IF YearFromDay(t.day) < 0 THEN -1 ELSE 1)
                        * YearFromDay(t.day)

YearIn4Digits(t) == YearFromDay(t.day) >= 0 /\ YearFromDay(t.day) <= 9999

\* the time value as the format's zone shows it
InZoneOf(f, t) == IF TzOf(f) = "local" THEN LocalTime(zone, t) ELSE t

\* a local time the clocks show twice, the second time round
ShownBefore(t) == LocalTime(zone, AddMinutes(t, -60)) = LocalTime(zone, t)

\* the first three digits of a fraction, as milliseconds
Ms3(frac) == ReadDigits(SubSeq(frac \o <<"0", "0", "0">>, 1, 3), 1, 0, 0)

\* the civil date and time a shape writes, as if it were UTC
ShapeCivil(sh) ==
    MakeDate(MakeDay(sh.y, sh.m - 1, sh.dd),
             MakeTime(sh.tm.h, sh.tm.mi,
                      IF sh.tm.sec = kNone THEN 0 ELSE sh.tm.sec,
                      Ms3(sh.tm.frac)))

ZoneLess(sh) == sh.kind \in {"date", "timestamp"} /\ sh.sfx.s = <<>>

(***************************************************************************)
(* The claims.                                                             *)
(***************************************************************************)
TimestampFormats == {"timestamptz", "timestamp:UTC", "timestamp:local"}

\* C1 as stated: in every format, a valid Date that is written and read back
\* with the format's own interpretation is the Date that was written.
C1_RoundTripAllFormats ==
    (pc = "decoded" /\ date.k = "time") => dec = date

\* C1, amended: a valid Date written in timestamptz, timestamp:UTC or
\* timestamp:local and read back with the format's interpretation is the Date
\* that was written, when (for the two zone-less formats) its year in the
\* format's zone is 0..9999 and (for timestamp:local) it is not the second
\* showing of a local time that the clocks show twice.
C1_RoundTripTimestamps ==
    ( /\ pc = "decoded" /\ date.k = "time"
      /\ fmt \in TimestampFormats
      /\ (fmt # "timestamptz" => YearIn4Digits(InZoneOf(fmt, date)))
      /\ (fmt = "timestamp:local" => ~ShownBefore(date)) )
    => dec = date

\* a Date with milliseconds, in a zone away from UTC, came back from
\* timestamp:local unchanged
C1_Witness ==
    /\ pc = "decoded" /\ fmt = "timestamp:local" /\ date.k = "time"
    /\ zone.std = 330 /\ date.ms % 1000 = 249 /\ dec = date

\* C2: toDate gives null for null in every interpretation, toString gives
\* null for null in every format, and neither gives null for anything else.
C2_NullPreserved ==
    /\ pc = "parsed" => (parsed.k = "null" <=> d.k = "null")
    /\ pc \in {"encoded", "decoded", "reencoded"} =>
           (enc.k = "null" <=> date.k = "null")
    /\ pc \in {"decoded", "reencoded"} => (dec.k = "null" <=> enc.k = "null")
    /\ pc = "reencoded" => (reenc.k = "null" <=> dec.k = "null")

C2_Witness ==
    /\ pc = "parsed" /\ d.k = "null" /\ mode = "local" /\ parsed = NullDate

\* C3 as stated: a date-only string read as local is the local midnight of
\* the year, month and day it writes.
C3_LocalMidnight ==
    (pc = "parsed" /\ mode = "local" /\ shape.kind = "date")
    => (parsed.k = "time" /\ LocalTime(zone, parsed) = ShapeCivil(shape))

\* C4 as stated: a date-only or zone-less timestamp string read as UTC is the
\* Date whose UTC fields are the fields it writes.
C4_UTCFields ==
    (pc = "parsed" /\ mode = "UTC" /\ ZoneLess(shape))
    => parsed = ShapeCivil(shape)

\* C5 as stated: toString(v, "timestamptz") of a valid Date is
\* YYYY-MM-DDTHH:MM:SS.fffZ with the UTC fields of v.
C5_IsoText ==
    (pc = "encoded" /\ fmt = "timestamptz" /\ date.k = "time")
    => ( /\ enc.k = "str" /\ Len(enc.s) = 24
         /\ Year4Is(enc.s, date) /\ DateTextIs(enc.s, 4, date)
         /\ TimeTextIs(enc.s, 10, date) /\ CharAt(enc.s, 24, "Z") )

\* C5, amended: toString(v, "timestamptz") of a valid Date whose UTC year is
\* 0..9999 is YYYY-MM-DDTHH:MM:SS.fffZ with the UTC fields of v, whatever the
\* host's zone; for any other year the year is written as a sign and six
\* digits.
C5_IsoTextByYear ==
    (pc = "encoded" /\ fmt = "timestamptz" /\ date.k = "time")
    => /\ enc.k = "str"
       /\ IF YearIn4Digits(date)
          THEN /\ Len(enc.s) = 24
               /\ Year4Is(enc.s, date) /\ DateTextIs(enc.s, 4, date)
               /\ TimeTextIs(enc.s, 10, date) /\ CharAt(enc.s, 24, "Z")
          ELSE /\ Len(enc.s) = 27
               /\ Year6Is(enc.s, date) /\ DateTextIs(enc.s, 7, date)
               /\ TimeTextIs(enc.s, 13, date) /\ CharAt(enc.s, 27, "Z")

\* 14:41:10.249 UTC was written on a host whose zone is not UTC
C5_Witness ==
    /\ pc = "encoded" /\ fmt = "timestamptz" /\ zone.std = -480
    /\ date = MakeDate(MakeDay(2021, 4, 25), MakeTime(14, 41, 10, 249))
    /\ enc.k = "str" /\ Len(enc.s) = 24 /\ CharAt(enc.s, 24, "Z")
    /\ NumAt(enc.s, 12, 2) = 14

\* C6 as stated: toString(v, "date:UTC") is 10 characters, NNNN-NN-NN, with
\* the UTC year, the UTC month counted from 1 and the UTC day of v.
C6_DateText ==
    (pc = "encoded" /\ fmt = "date:UTC" /\ date.k = "time")
    => ( /\ enc.k = "str" /\ Len(enc.s) = 10
         /\ Year4Is(enc.s, date) /\ DateTextIs(enc.s, 4, date) )

\* C6, amended: the same for every valid Date whose UTC year is 0..9999.
C6_DateTextIn4Digits ==
    (pc = "encoded" /\ fmt = "date:UTC" /\ date.k = "time"
        /\ YearIn4Digits(date))
    => ( /\ enc.k = "str" /\ Len(enc.s) = 10
         /\ Year4Is(enc.s, date) /\ DateTextIs(enc.s, 4, date) )

\* a day of December, late in the local day east of UTC, was written
C6_Witness ==
    /\ pc = "encoded" /\ fmt = "date:UTC" /\ date.k = "time"
    /\ zone.std = 330 /\ YearFromDay(date.day) = 1999
    /\ date.ms = MakeTime(23, 59, 59, 999)
    /\ Len(enc.s) = 10 /\ NumAt(enc.s, 6, 2) = 12 /\ NumAt(enc.s, 9, 2) = 31

C8_NoCallRaises ==
    /\ enc.k # "raised" /\ reenc.k # "raised"
    /\ dec.k # "raised" /\ parsed.k # "raised"

\* C8, amended: toDate never raises (when the date-only pattern matches, its
\* three groups are not empty), and toString raises in one case only: the
\* invalid Date in the format timestamptz.
C8_RaisesOnlyInvalidTz ==
    /\ dec.k # "raised" /\ parsed.k # "raised"
    /\ (d.k = "str" /\ dateMatch(d.s).ok) =>
           (Len(dateMatch(d.s).y) > 0 /\ Len(dateMatch(d.s).m) > 0
            /\ Len(dateMatch(d.s).d) > 0)
    /\ pc = "encoded" =>
           (enc.k = "raised" <=> (date.k = "invalid" /\ fmt = "timestamptz"))
    /\ pc = "reencoded" =>
           (reenc.k = "raised" <=> (dec.k = "invalid" /\ fmt = "timestamptz"))

\* a string of hyphens alone was read as local, and a Date came back
C8_Witness ==
    /\ pc = "parsed" /\ mode = "local" /\ d = Str(<<"-", "-">>)
    /\ parsed = InvalidDate

\* C9 as stated: toString(v, "timestamp:Z") of a valid Date is exactly
\* YYYY-MM-DDTHH:MM:SS.fff, its fields those of v in UTC for Z = UTC and in
\* the host's zone for Z = local.
C9_TimestampText ==
    (pc = "encoded" /\ fmt \in {"timestamp:UTC", "timestamp:local"}
        /\ date.k = "time")
    => ( /\ enc.k = "str" /\ Len(enc.s) = 23
         /\ Year4Is(enc.s, InZoneOf(fmt, date))
         /\ DateTextIs(enc.s, 4, InZoneOf(fmt, date))
         /\ TimeTextIs(enc.s, 10, InZoneOf(fmt, date)) )

\* C9, amended: the same for every valid Date whose year in the zone Z is
\* 0..9999.
C9_TimestampTextIn4Digits ==
    (pc = "encoded" /\ fmt \in {"timestamp:UTC", "timestamp:local"}
        /\ date.k = "time" /\ YearIn4Digits(InZoneOf(fmt, date)))
    => ( /\ enc.k = "str" /\ Len(enc.s) = 23
         /\ Year4Is(enc.s, InZoneOf(fmt, date))
         /\ DateTextIs(enc.s, 4, InZoneOf(fmt, date))
         /\ TimeTextIs(enc.s, 10, InZoneOf(fmt, date)) )

\* 14:41:10.249 UTC was written as local time five and a half hours east
C9_Witness ==
    /\ pc = "encoded" /\ fmt = "timestamp:local" /\ zone.std = 330
    /\ date = MakeDate(MakeDay(2021, 4, 25), MakeTime(14, 41, 10, 249))
    /\ enc.k = "str" /\ Len(enc.s) = 23
    /\ NumAt(enc.s, 12, 2) = 20 /\ NumAt(enc.s, 15, 2) = 11

\* C10 as stated: in a zone-less format, for a valid Date whose year in the
\* format's zone is 0..9999, writing the Date that was read back gives the
\* string that was written first.
C10_ReencodeSame ==
    (pc = "reencoded" /\ date.k = "time" /\ fmt # "timestamptz"
        /\ YearIn4Digits(InZoneOf(fmt, date)))
    => reenc = enc

=============================================================================
